---- MODULE Spec2Model ----
(***************************************************************************)
(* A model of the PerfSight collector sidecar                              *)
(* (perf-sight/src-tauri/python/collector.py): the Control Loop            *)
(* (read_stdin) writing the shared configuration under config_lock, and    *)
(* the Sampler Loop (collect_metrics) snapshotting it once per tick,       *)
(* sampling every target and writing one Metric Event.                     *)
(*                                                                         *)
(* Units: time and CPU time are in milliseconds (the code holds seconds    *)
(* as floats); cpu and memory of a metric are in hundredths (the code      *)
(* rounds both to two decimals), so 6.25 is 625.                           *)
(*                                                                         *)
(* The operating system is outside the program: every query about a        *)
(* process (handle construction, cpu_times, memory_info) and every clock   *)
(* reading is an input, drawn afresh each time it is made.                 *)
(*                                                                         *)
(* Three specifications run the same actions on different inputs:          *)
(*   Spec          two targets, queries that may report the process gone,  *)
(*                 one reading of the clock and of CPU time                *)
(*   SpecConfig    every command, an OS that always answers                *)
(*   SpecReadings  one target, every reading of the clock and of CPU time, *)
(*                 every way a query may fail                              *)
(***************************************************************************)
EXTENDS Integers, Sequences, FiniteSets, TLC

\* ------------------------------------------------------------ bounds
\* Lines the Control Loop reads before its input is exhausted.
MaxCmds == 3
\* Enabled ticks that sample a target (a tick of an empty list is not counted).
MaxTicks == 3
\* Arguments on the command line of a scanned process.
MaxArgs == 3

\* ------------------------------------------------------------ domains
Pids == {1, 2}
\* The pids lists a command may carry: a JSON list keeps order and repeats.
PidLists == {<< >>, <<1>>, <<2>>, <<1, 2>>, <<1, 1>>}
\* Readings of the wall clock (time.time(), not monotonic).
Times == {1000, 2000}
\* Readings of a process's cumulative user+system CPU time.
CpuTimes == {100, 600, 601}
\* Readings of a process's private (or resident) memory, in bytes.
MemBytes == {1572864}
\* Numeric interval values a command may carry.
IntervalInputs == {100, 600}

\* ------------------------------------------------------------ constants
\* max(0.5, interval)
MinInterval == 500
\* cmd.get("interval", 1.0), and config["interval"] at construction
DefaultInterval == 1000
\* psutil.cpu_count(logical=True)
CPU_COUNT == 8
\* bytes per MB: private_mem / 1024 / 1024
BytesPerMB == 1048576
\* time.sleep(0.1) of the disabled branch
IdlePoll == 100

\* ------------------------------------------------------------ helpers
Range(s) == {s[k] : k \in DOMAIN s}

\* d with key k bound to v (d[k] = v on a Python dict)
Put(d, k, v) == [x \in (DOMAIN d) \cup {k} |-> IF x = k THEN v ELSE d[x]]

\* d without key k (del d[k], guarded by "k in d")
Del(d, k) == [x \in (DOMAIN d) \ {k} |-> d[x]]

\* d restricted to the keys in S
Restrict(d, S) == [x \in (DOMAIN d) \cap S |-> d[x]]

EmptyDict == [x \in {} |-> 0]

\* round(n / d, 2) in hundredths, for n >= 0 and d > 0, ties going to the
\* even hundredth.
Round2(n, d) ==
    LET scaled == n * 100
        f == scaled \div d
        r == scaled % d
    IN  IF 2 * r < d THEN f
        ELSE IF 2 * r > d THEN f + 1
        ELSE IF f % 2 = 0 THEN f ELSE f + 1

\* ClampInterval without its lower bound.
ClampIntervalNone(x) == x

\* max(0.5, interval)
ClampInterval(x) == IF x < MinInterval THEN MinInterval ELSE x

\* CpuPercent that reports a negative delta as a negative percentage.
CpuPercentSigned(delta_cpu, delta_time) ==
    IF delta_time > 0
    THEN (IF delta_cpu >= 0 THEN Round2(delta_cpu * 100, delta_time * CPU_COUNT)
          ELSE 0 - Round2((0 - delta_cpu) * 100, delta_time * CPU_COUNT))
    ELSE 0

\* CpuPercent without the division by the core count.
CpuPercentNoCores(delta_cpu, delta_time) ==
    IF delta_time > 0 /\ delta_cpu >= 0
    THEN Round2(delta_cpu * 100, delta_time)
    ELSE 0

\* (delta_cpu / delta_time) * 100 / CPU_COUNT, rounded by round(cpu, 2);
\* 0.0 when the elapsed time is not positive or the delta is negative.
CpuPercent(delta_cpu, delta_time) ==
    IF delta_time > 0 /\ delta_cpu >= 0
    THEN Round2(delta_cpu * 100, delta_time * CPU_COUNT)
    ELSE 0

\* round(private_mem / 1024 / 1024, 2)
MemMB(private_mem) == Round2(private_mem, BytesPerMB)

NullMetric == [null |-> TRUE, cpu |-> 0, memory |-> 0]
Sample(cpu, mem) == [null |-> FALSE, cpu |-> cpu, memory |-> mem]

\* The start and update objects the Control Loop is fed, with pids drawn
\* from lists: pids present or not, interval a number, absent, or no number
\* ("bad").
CommandsOver(lists, ivKinds) ==
    {c \in [action : {"start", "update"}, pidsKind : {"list", "absent"},
            pids : lists \cup {<< >>}, ivKind : ivKinds,
            interval : IntervalInputs \cup {0}] :
        /\ c.pidsKind = "absent" => c.pids = << >>
        /\ (c.ivKind = "num") = (c.interval \in IntervalInputs)}

Commands == CommandsOver(PidLists, {"num", "absent", "bad"})

\* The stop object, and the command of a Control Loop that handles none.
StopCmd == [action |-> "stop", pidsKind |-> "absent", pids |-> << >>,
            ivKind |-> "absent", interval |-> 0]
NoCmd == [action |-> "none", pidsKind |-> "absent", pids |-> << >>,
          ivKind |-> "absent", interval |-> 0]

NoRecord == [type |-> "none", timestamp |-> 0, metrics |-> EmptyDict, data |-> {}]

\* What one sampling of a target observed.
NoObs == [ctor |-> "none", cpu |-> "none", total |-> 0, mem |-> "none",
          hadBase |-> FALSE, pend |-> "none", any |-> FALSE]

\* The answers of the OS to the queries of one sampling: the handle
\* construction, cpu_times() with the cumulative time c, memory_info() with
\* the private memory m. A query raises NoSuchProcess, AccessDenied or
\* ZombieProcess ("gone"), or something else ("err"), or answers ("ok"). After
\* a failed construction nothing else is asked; a failed query has no value.
NotAsked == [cpuR : {"none"}, c : {0}, memR : {"none"}, m : {0}]
AskedOver(cpus, fails) ==
    [cpuR : {"ok"}, c : cpus, memR : {"ok"}, m : MemBytes]
    \cup [cpuR : {"ok"}, c : cpus, memR : fails, m : {0}]
    \cup [cpuR : fails, c : {0}, memR : {"ok"}, m : MemBytes]
    \cup [cpuR : fails, c : {0}, memR : fails, m : {0}]

\* The arguments of a command line: "--type=<val>" is [key |-> "type", val],
\* a flag without a value, "--<key>", has val "". No argument of Args holds
\* the text of another, so that "flag in cmd_str", a test on the joined
\* command line, is a test on its arguments.
TypeArg(v) == [key |-> "type", val |-> v]
FlagArg(k) == [key |-> k, val |-> ""]
TypeValues == {"renderer", "gpu-process", "utility", "crashpad-handler", "zygote", "ppapi"}
Args == {TypeArg(v) : v \in TypeValues}
        \cup {FlagArg("extension-process"), FlagArg("no-sandbox")}
Cmdlines == UNION {[1..n -> Args] : n \in 0..MaxArgs}

\* The OS process table a scan may find: a process has a pid, a name and a
\* command line, and psutil.process_iter hands the name None ("none") when
\* the OS denies it or the process is a zombie.
ProcTable ==
    {[pid |-> 1, name |-> "chrome.exe", cmdline |-> << >>],
     [pid |-> 2, name |-> "python", cmdline |-> << >>],
     [pid |-> 3, name |-> "none", cmdline |-> << >>]}
Tables == SUBSET ProcTable

\* The tables of one process, for every command line: a Chrome process, a
\* process of another name, and a process whose name cannot be read.
ScanTables ==
    {{[pid |-> 1, name |-> "chrome.exe", cmdline |-> c]} : c \in Cmdlines}
    \cup {{[pid |-> 2, name |-> "python", cmdline |-> <<TypeArg(v)>>]} : v \in TypeValues}
    \cup {{[pid |-> 3, name |-> "none", cmdline |-> << >>]}}

\* The inputs of a specification: the commands fed to the Control Loop, the
\* clock readings, the CPU readings, the ways a query may fail, whether the
\* history follows removals and re-additions of targets, and whether it
\* keeps a log of the kinds of the lines read and of the table a scan found,
\* and the OS process tables a scan may find.
Inputs(cmds, times, cpus, fails, track, log, tables) ==
    [cmds |-> cmds, times |-> times, cpus |-> cpus, fails |-> fails,
     track |-> track, log |-> log, tables |-> tables]

Fails == {"gone", "err"}

SystemInputs ==
    Inputs(CommandsOver(PidLists, {"absent"}), {1000}, {100}, {"gone"}, FALSE, FALSE, Tables)
ConfigInputs ==
    Inputs(Commands, {1000}, {100}, {}, FALSE, FALSE, Tables)
ReadingsInputs ==
    Inputs(CommandsOver({<<1>>}, {"absent"}), Times, CpuTimes, Fails, TRUE, FALSE, Tables)
FairInputs ==
    Inputs(CommandsOver({<<1>>}, {"absent"}), {1000}, {100}, {"gone"}, FALSE, FALSE, Tables)
ControlInputs ==
    Inputs(CommandsOver({<< >>, <<1>>}, {"absent", "bad"}), {1000}, {100}, {"gone"},
           FALSE, TRUE, Tables)
ScanInputs ==
    Inputs({}, {1000}, {100}, {}, FALSE, TRUE, ScanTables)
RepeatInputs ==
    Inputs(CommandsOver({<<1>>, <<1, 1>>}, {"absent"}), Times, {100, 600}, {"gone"},
           FALSE, FALSE, Tables)
PairInputs ==
    Inputs(CommandsOver({<<1, 2>>}, {"absent"}), {1000}, {100}, {"gone"},
           FALSE, FALSE, Tables)
TrackInputs ==
    Inputs(CommandsOver({<<1>>, <<2>>}, {"absent"}), {1000}, {100}, {"gone"},
           TRUE, FALSE, Tables)
LockInputs ==
    Inputs(CommandsOver({<<1>>}, {"num", "absent", "bad"}) \cup {StopCmd},
           {1000}, {100}, {"gone"}, FALSE, FALSE, Tables)

VARIABLES
    config,          \* the shared configuration: running, pids, interval
    lock,            \* config_lock between steps: "free", or "ctl" during a scan
    ctl_pc,          \* Control Loop position
    nread,           \* lines read so far
    proc,            \* "up" or "exited"
    procs,           \* the result of the scan being answered: its pids
    proc_type,       \* and pid -> the proc_type the scan gave it
    scanned,         \* history: the table the scan being answered found
    lines,           \* history: the kinds of the lines read, in order, see Logged
    cmd,             \* the command whose handler is running statement by statement
    whole,           \* history: config as the last handler that ran to its end left it
    pc,              \* Sampler Loop position
    running, target_pids, interval,   \* the Sampler Loop's snapshot
    process_cache,   \* pids with a cached psutil.Process handle
    cpu_state,       \* pid -> [t, c]: last sample time, last total CPU time
    now,             \* the clock reading of the last enabled tick
    metrics,         \* pid -> sample or null, of the last enabled tick
    has_data,
    slept,           \* argument of the last time.sleep
    stdout,          \* the last record written to the Output Channel
    \* history
    nticks,          \* enabled ticks run that sampled a target
    tickEmits,       \* Metric Events written by the last enabled tick
    emitsWhileStopped, \* Metric Events written since config.running went false
    obs,             \* pid -> what its sampling in the last enabled tick observed
    idleCleared,     \* the disabled branch cleared the caches since the last enabled tick
    gap,             \* pid -> removal and re-addition by commands, see GapOnWrite
    pend             \* pid -> the coming sampling is the first after a re-addition

ctlVars == <<config, lock, ctl_pc, nread, proc, procs, proc_type, scanned, lines,
            cmd, whole>>
smpVars == <<pc, running, target_pids, interval, process_cache, cpu_state, now,
             metrics, has_data, slept>>
histVars == <<nticks, tickEmits, emitsWhileStopped, obs, idleCleared, gap, pend>>
vars == <<ctlVars, smpVars, histVars, stdout>>

Init ==
    /\ config = [running |-> FALSE, pids |-> << >>, interval |-> DefaultInterval]
    /\ lock = "free"
    /\ ctl_pc = "read"
    /\ nread = 0
    /\ proc = "up"
    /\ procs = {}
    /\ proc_type = EmptyDict
    /\ scanned = {}
    /\ cmd = NoCmd
    /\ whole = [running |-> FALSE, pids |-> << >>, interval |-> DefaultInterval]
    /\ lines = << >>
    /\ pc = "snapshot"
    /\ running = FALSE
    /\ target_pids = << >>
    /\ interval = DefaultInterval
    /\ process_cache = {}
    /\ cpu_state = EmptyDict
    /\ now = 0
    /\ metrics = EmptyDict
    /\ has_data = FALSE
    /\ slept = 0
    /\ stdout = NoRecord
    /\ nticks = 0
    /\ tickEmits = 0
    /\ emitsWhileStopped = 0
    /\ obs = [p \in Pids |-> NoObs]
    /\ idleCleared = FALSE
    /\ gap = [p \in Pids |-> "none"]
    /\ pend = [p \in Pids |-> "none"]

\* ------------------------------------------------------------ history helpers
\* A command replaced the pids list old by new. A pid it drops is "removed";
\* a removed pid it lists again is "readded". The suffix Seen records that the
\* Sampler Loop took a snapshot that prunes or clears while the pid was dropped.
GapOnWrite(old, new) ==
    [p \in Pids |->
        IF p \in Range(old) /\ p \notin Range(new)
        THEN (IF gap[p] \in {"removedSeen", "readdedSeen"} THEN "removedSeen"
              ELSE "removed")
        ELSE IF p \notin Range(old) /\ p \in Range(new)
        THEN (IF gap[p] = "removed" THEN "readded"
              ELSE IF gap[p] = "removedSeen" THEN "readdedSeen"
              ELSE gap[p])
        ELSE gap[p]]

\* A snapshot that prunes or clears (an enabled one, or a disabled one of an
\* empty list) marks the dropped pids as seen; an enabled one that lists a
\* re-added pid is followed by its first sampling after the re-addition.
GapOnSnapshot ==
    [p \in Pids |->
        IF p \in Range(config.pids)
        THEN (IF config.running THEN "none" ELSE gap[p])
        ELSE IF gap[p] = "removed" /\ (config.running \/ config.pids = << >>)
        THEN "removedSeen"
        ELSE gap[p]]

\* For the tick that follows the snapshot: whether its sampling of p is the
\* first after a re-addition, and whether a snapshot saw p dropped.
PendOnSnapshot ==
    [p \in Pids |->
        IF p \in Range(config.pids) /\ config.running
        THEN (IF gap[p] = "readdedSeen" THEN "seen"
              ELSE IF gap[p] = "readded" THEN "unseen"
              ELSE "none")
        ELSE "none"]

\* Terminated that leaves config_lock held and the Sampler Loop at its tick.
TerminatedHalfway ==
    /\ proc' = "exited"
    /\ config' = [running |-> FALSE, pids |-> << >>, interval |-> DefaultInterval]
    /\ lock' = "ctl"
    /\ ctl_pc' = "read"
    /\ procs' = {}
    /\ proc_type' = EmptyDict
    /\ scanned' = {}
    /\ cmd' = NoCmd
    /\ whole' = [running |-> FALSE, pids |-> << >>, interval |-> DefaultInterval]
    /\ pc' = "tick"
    /\ running' = FALSE
    /\ target_pids' = << >>
    /\ interval' = DefaultInterval
    /\ process_cache' = {}
    /\ cpu_state' = EmptyDict
    /\ now' = 0
    /\ metrics' = EmptyDict
    /\ has_data' = FALSE
    /\ slept' = 0
    /\ nticks' = 0
    /\ tickEmits' = 0
    /\ emitsWhileStopped' = 0
    /\ obs' = [p \in Pids |-> NoObs]
    /\ idleCleared' = FALSE
    /\ gap' = [p \in Pids |-> "none"]
    /\ pend' = [p \in Pids |-> "none"]
    /\ UNCHANGED stdout

\* The process is gone, its memory with it; what it wrote stays written.
Terminated ==
    /\ proc' = "exited"
    /\ config' = [running |-> FALSE, pids |-> << >>, interval |-> DefaultInterval]
    /\ lock' = "free"
    /\ ctl_pc' = "read"
    /\ procs' = {}
    /\ proc_type' = EmptyDict
    /\ scanned' = {}
    /\ cmd' = NoCmd
    /\ whole' = [running |-> FALSE, pids |-> << >>, interval |-> DefaultInterval]
    /\ pc' = "snapshot"
    /\ running' = FALSE
    /\ target_pids' = << >>
    /\ interval' = DefaultInterval
    /\ process_cache' = {}
    /\ cpu_state' = EmptyDict
    /\ now' = 0
    /\ metrics' = EmptyDict
    /\ has_data' = FALSE
    /\ slept' = 0
    /\ nticks' = 0
    /\ tickEmits' = 0
    /\ emitsWhileStopped' = 0
    /\ obs' = [p \in Pids |-> NoObs]
    /\ idleCleared' = FALSE
    /\ gap' = [p \in Pids |-> "none"]
    /\ pend' = [p \in Pids |-> "none"]
    /\ UNCHANGED stdout

\* ------------------------------------------------------------ Control Loop
\* read_stdin: one action per kind of line. A handler runs inside
\* "with config_lock", so it starts only when the lock is free, and the
\* Sampler Loop reads the configuration only under the same lock: the writes
\* of one handler are one step.

ReadsLine == proc = "up" /\ ctl_pc = "read" /\ nread < MaxCmds

\* The log of lines after a line of kind k was read.
Logged(D, k) == IF D.log THEN Append(lines, k) ELSE lines

\* MalformedLine whose JSONDecodeError is not caught: read_stdin ends.
MalformedLineStops(D) ==
    /\ ReadsLine
    /\ nread' = nread + 1
    /\ lines' = Logged(D, "malformed")
    /\ Terminated

\* A line that json.loads rejects: except json.JSONDecodeError: pass
MalformedLine(D) ==
    /\ ReadsLine
    /\ nread' = nread + 1
    /\ lines' = Logged(D, "malformed")
    /\ UNCHANGED <<config, lock, ctl_pc, proc, cmd, whole, procs, proc_type, scanned, smpVars, histVars, stdout>>

\* NonObjectLine whose fault no except clause catches: read_stdin ends.
NonObjectLineStops(D) ==
    /\ ReadsLine
    /\ nread' = nread + 1
    /\ lines' = Logged(D, "nonobject")
    /\ Terminated

\* Valid JSON that is no object: cmd.get raises, except Exception logs it.
NonObjectLine(D) ==
    /\ ReadsLine
    /\ nread' = nread + 1
    /\ lines' = Logged(D, "nonobject")
    /\ UNCHANGED <<config, lock, ctl_pc, proc, cmd, whole, procs, proc_type, scanned, smpVars, histVars, stdout>>

\* UnknownAction that handles the line as a stop.
UnknownActionAsStop(D) ==
    /\ ReadsLine
    /\ lock = "free"
    /\ config' = [config EXCEPT !.running = FALSE]
    /\ nread' = nread + 1
    /\ lines' = Logged(D, "unknown")
    /\ UNCHANGED <<lock, ctl_pc, proc, cmd, whole, procs, proc_type, scanned, smpVars, histVars, stdout>>

\* An object whose action is none of the five: the lock is taken and released.
UnknownAction(D) ==
    /\ ReadsLine
    /\ lock = "free"
    /\ nread' = nread + 1
    /\ lines' = Logged(D, "unknown")
    /\ UNCHANGED <<config, lock, ctl_pc, proc, cmd, whole, procs, proc_type, scanned, smpVars, histVars, stdout>>

\* any(t in name for t in target_names)
NameMatches(name) == name = "chrome.exe"

\* proc.info['name'].lower() raises on None, and the except clause of the
\* scan lets that through: the scan ends without a result.
ScanFaults(table) == \E r \in table : r.name = "none"

\* ScanResult that lists only the configured targets.
ScanResultOfTargets(table) ==
    {r.pid : r \in {x \in table : NameMatches(x.name)}} \cap Range(config.pids)

\* scan_chrome_processes(): the processes of the table with a matching name
ScanResult(table) == {r.pid : r \in {x \in table : NameMatches(x.name)}}

\* flag in cmd_str, for "--type=<v>" and for "--<k>"
HasType(cmdline, v) == \E i \in DOMAIN cmdline : cmdline[i] = TypeArg(v)
HasFlag(cmdline, k) == \E i \in DOMAIN cmdline : cmdline[i] = FlagArg(k)

\* str.capitalize() on the values of TypeValues
Capitalize(v) ==
    CASE v = "renderer" -> "Renderer"
      [] v = "gpu-process" -> "Gpu-process"
      [] v = "utility" -> "Utility"
      [] v = "crashpad-handler" -> "Crashpad-handler"
      [] v = "zygote" -> "Zygote"
      [] v = "ppapi" -> "Ppapi"
      [] OTHER -> v

\* for arg in cmdline: if arg.startswith('--type='):
\*     proc_type = arg.split('=')[1].capitalize(); break
FirstTypeRole(cmdline) ==
    LET typed == {i \in DOMAIN cmdline : cmdline[i].key = "type"}
        first == CHOOSE i \in typed : \A j \in typed : i <= j
    IN  Capitalize(cmdline[first].val)

\* ProcType that looks for the GPU flag before the renderer flag.
ProcTypeGpuFirst(cmdline) ==
    IF HasType(cmdline, "gpu-process") THEN "GPU"
    ELSE IF HasType(cmdline, "renderer")
    THEN (IF HasFlag(cmdline, "extension-process") THEN "Extension" ELSE "Renderer")
    ELSE IF HasType(cmdline, "utility") THEN "Utility"
    ELSE IF HasType(cmdline, "crashpad-handler") THEN "Crashpad"
    ELSE IF \E i \in DOMAIN cmdline : cmdline[i].key = "type"
    THEN FirstTypeRole(cmdline)
    ELSE "Browser"

\* The if/elif chain on cmd_str that sets proc_type (lines 147-163).
ProcType(cmdline) ==
    IF HasType(cmdline, "renderer")
    THEN (IF HasFlag(cmdline, "extension-process") THEN "Extension" ELSE "Renderer")
    ELSE IF HasType(cmdline, "gpu-process") THEN "GPU"
    ELSE IF HasType(cmdline, "utility") THEN "Utility"
    ELSE IF HasType(cmdline, "crashpad-handler") THEN "Crashpad"
    ELSE IF \E i \in DOMAIN cmdline : cmdline[i].key = "type"
    THEN FirstTypeRole(cmdline)
    ELSE "Browser"

\* The proc_type of every process of the scan's result. A pid is listed once
\* in a process table.
ScanTypes(table) ==
    [p \in ScanResult(table) |->
        ProcType((CHOOSE r \in table : r.pid = p).cmdline)]

\* action == "scan_chrome": scan_chrome_processes() runs under the lock on
\* the OS process table.
ScanOf(table) ==
    /\ ReadsLine
    /\ lock = "free"
    /\ lock' = "ctl"
    /\ nread' = nread + 1
    /\ IF ScanFaults(table)
       THEN ctl_pc' = "scan_fault" /\ procs' = {} /\ proc_type' = EmptyDict
       ELSE /\ ctl_pc' = "scan_done"
            /\ procs' = ScanResult(table)
            /\ proc_type' = ScanTypes(table)
    /\ UNCHANGED <<config, proc, cmd, whole, smpVars, histVars, stdout>>

ScanBegin(D) ==
    /\ ReadsLine
    /\ lock = "free"
    /\ \E table \in D.tables :
        /\ ScanOf(table)
        /\ scanned' = IF D.log THEN table ELSE {}
        /\ lines' = Logged(D, IF ScanFaults(table) THEN "scan_fault" ELSE "scan_chrome")

\* LockAfterScan that leaves the lock with the Control Loop.
LockAfterScanHeld == "ctl"

\* The with block of the handler ends, by its last statement or by the
\* exception that leaves it: the lock is released.
LockAfterScan == "free"

\* The scan raised: the lock is released, except Exception logs the fault, and
\* nothing is written to the Output Channel.
ScanFault ==
    /\ proc = "up" /\ ctl_pc = "scan_fault"
    /\ lock' = LockAfterScan
    /\ ctl_pc' = "read"
    /\ scanned' = {}
    /\ UNCHANGED <<config, nread, proc, cmd, whole, procs, proc_type, lines, smpVars, histVars, stdout>>

\* sys.stdout.write(json.dumps({"type": "process_list", ...})) is called: the
\* write and the flush are in progress until ScanWrite.
ScanWriteBegin ==
    /\ proc = "up" /\ ctl_pc = "scan_done"
    /\ ctl_pc' = "scan_write"
    /\ UNCHANGED <<config, lock, nread, proc, cmd, whole, procs, proc_type, scanned, lines, smpVars, histVars, stdout>>

\* The write and the flush return: the record is on the Output Channel, and
\* the lock is released.
ScanWrite ==
    /\ proc = "up" /\ ctl_pc = "scan_write"
    /\ stdout' = [type |-> "process_list", timestamp |-> 0, metrics |-> EmptyDict,
                  data |-> procs]
    /\ lock' = LockAfterScan
    /\ ctl_pc' = "read"
    /\ procs' = {}
    /\ proc_type' = EmptyDict
    /\ scanned' = {}
    /\ UNCHANGED <<config, nread, proc, cmd, whole, lines, smpVars, histVars>>

\* StartConfig without config["running"] = True.
StartConfigNoEnable(c) ==
    IF c.ivKind = "bad"
    THEN [config EXCEPT !.pids = c.pids]
    ELSE [config EXCEPT !.pids = c.pids,
                        !.interval = ClampInterval(IF c.ivKind = "absent"
                                                   THEN DefaultInterval
                                                   ELSE c.interval)]

\* The configuration after the start handler ran for c:
\*   config["pids"] = cmd.get("pids", [])
\*   config["interval"] = max(0.5, cmd.get("interval", 1.0))
\*   config["running"] = True
\* max raises on an interval that is no number: the handler ends there, with
\* pids written.
StartConfig(c) ==
    IF c.ivKind = "bad"
    THEN [config EXCEPT !.pids = c.pids]
    ELSE [running |-> TRUE,
          pids |-> c.pids,
          interval |-> ClampInterval(IF c.ivKind = "absent" THEN DefaultInterval
                                     ELSE c.interval)]

\* The start handler for the command c.
StartOf(c, track) ==
    /\ ReadsLine
    /\ lock = "free"
    /\ config' = StartConfig(c)
    /\ gap' = IF track THEN GapOnWrite(config.pids, c.pids) ELSE gap
    /\ emitsWhileStopped' = IF StartConfig(c).running THEN 0
                            ELSE emitsWhileStopped
    /\ nread' = nread + 1
    /\ UNCHANGED <<lock, ctl_pc, proc, cmd, whole, procs, proc_type, scanned, smpVars, nticks, tickEmits, obs,
                   idleCleared, pend, stdout>>

Start(D) ==
    \E c \in {x \in D.cmds : x.action = "start"} :
        /\ StartOf(c, D.track)
        /\ lines' = Logged(D, IF c.ivKind = "bad" THEN "start_fault" ELSE "start")

\* StopConfig that also empties the target list.
StopConfigClears == [config EXCEPT !.running = FALSE, !.pids = << >>]

\* action == "stop": config["running"] = False
StopConfig == [config EXCEPT !.running = FALSE]

Stop(D) ==
    /\ ReadsLine
    /\ lock = "free"
    /\ config' = StopConfig
    /\ nread' = nread + 1
    /\ lines' = Logged(D, "stop")
    /\ UNCHANGED <<lock, ctl_pc, proc, cmd, whole, procs, proc_type, scanned, smpVars, histVars, stdout>>

\* UpdateConfig that also sets config["running"] = True.
UpdateConfigEnables(c) ==
    LET withPids == IF c.pidsKind = "list" THEN [config EXCEPT !.pids = c.pids]
                    ELSE config
    IN  IF c.ivKind = "num"
        THEN [withPids EXCEPT !.interval = ClampInterval(c.interval), !.running = TRUE]
        ELSE [withPids EXCEPT !.running = TRUE]

\* The configuration after the update handler ran for c:
\*   if "pids" in cmd: config["pids"] = cmd["pids"]
\*   if "interval" in cmd: config["interval"] = max(0.5, cmd["interval"])
\* max raises on an interval that is no number, after pids was written.
UpdateConfig(c) ==
    LET withPids == IF c.pidsKind = "list" THEN [config EXCEPT !.pids = c.pids]
                    ELSE config
    IN  IF c.ivKind = "num"
        THEN [withPids EXCEPT !.interval = ClampInterval(c.interval)]
        ELSE withPids

\* The update handler for the command c.
UpdateOf(c, track) ==
    /\ ReadsLine
    /\ lock = "free"
    /\ config' = UpdateConfig(c)
    /\ gap' = IF track /\ c.pidsKind = "list" THEN GapOnWrite(config.pids, c.pids)
              ELSE gap
    /\ nread' = nread + 1
    /\ UNCHANGED <<lock, ctl_pc, proc, cmd, whole, procs, proc_type, scanned, smpVars, nticks, tickEmits,
                   emitsWhileStopped, obs, idleCleared, pend, stdout>>

Update(D) ==
    \E c \in {x \in D.cmds : x.action = "update"} :
        /\ UpdateOf(c, D.track)
        /\ lines' = Logged(D, IF c.ivKind = "bad" THEN "update_fault" ELSE "update")

\* action == "exit": sys.exit(0) ends the process, the daemon thread with it
Exit(D) ==
    /\ ReadsLine
    /\ lock = "free"
    /\ nread' = nread + 1
    /\ lines' = Logged(D, "exit")
    /\ Terminated

\* End of input: the for loop ends, read_stdin returns, the process ends.
EndOfInput ==
    /\ proc = "up" /\ ctl_pc = "read"
    /\ UNCHANGED <<nread, lines>>
    /\ Terminated

\* ------------------------------------------------------------ Sampler Loop
\* collect_metrics: the snapshot under the lock (taking the lock, the three
\* reads and the release are one step), then the disabled branch or the
\* enabled tick.

\* Branch that takes the enabled tick whatever was read.
BranchAlways(r) == "tick"

\* if not running: the disabled branch, else the enabled tick
Branch(r) == IF r THEN "tick" ELSE "idle"

\* LoopsAt that takes up the loop again after the break.
LoopsAtOrBroken(p) == p \in {"snapshot", "dead"}

\* while True: the loop comes back to its snapshot after a sleep, and not
\* after the break.
LoopsAt(p) == p = "snapshot"

\* with config_lock: running = config["running"];
\* target_pids = list(config["pids"]); interval = config["interval"]
SamplerSnapshot(D) ==
    /\ proc = "up" /\ LoopsAt(pc)
    /\ (config.running /\ config.pids # << >>) => nticks < MaxTicks
    /\ lock = "free"
    /\ running' = config.running
    /\ target_pids' = config.pids
    /\ interval' = config.interval
    /\ pc' = Branch(config.running)
    /\ gap' = IF D.track THEN GapOnSnapshot ELSE gap
    /\ pend' = IF D.track THEN PendOnSnapshot ELSE pend
    /\ UNCHANGED <<ctlVars, process_cache,
                   cpu_state, now, metrics, has_data, slept, nticks, tickEmits,
                   emitsWhileStopped, obs, idleCleared, stdout>>

\* IdleClears that never clears.
IdleClearsNever(pids) == FALSE

\* IdleClears that clears whatever the target list.
IdleClearsAlways(pids) == TRUE

\* if not target_pids: the disabled branch clears the caches
IdleClears(pids) == pids = << >>

\* if not running: clear both caches when target_pids is empty; sleep(0.1)
Idle ==
    /\ proc = "up" /\ pc = "idle"
    /\ IF IdleClears(target_pids)
       THEN /\ process_cache' = {}
            /\ cpu_state' = EmptyDict
            /\ idleCleared' = TRUE
       ELSE UNCHANGED <<process_cache, cpu_state, idleCleared>>
    /\ slept' = IdlePoll
    /\ pc' = "snapshot"
    /\ UNCHANGED <<ctlVars, running, target_pids, interval, now, metrics, has_data,
                   nticks, tickEmits, emitsWhileStopped, obs, gap, pend, stdout>>

\* CpuBlock that stores the reading only when there was no baseline or the
\* delta against it was valid.
CpuBlockStoresValid(state, pid, t, cpuR, c) ==
    IF cpuR = "ok"
    THEN [cpu |-> IF pid \in DOMAIN state
                  THEN CpuPercent(c - state[pid].c, t - state[pid].t)
                  ELSE 0,
          cpu_state |-> IF pid \in DOMAIN state
                           /\ ~(t - state[pid].t > 0 /\ c - state[pid].c >= 0)
                        THEN state
                        ELSE Put(state, pid, [t |-> t, c |-> c])]
    ELSE [cpu |-> 0, cpu_state |-> Del(state, pid)]

\* The CPU block of the loop body (lines 69-95) on the baseline store state,
\* for a cpu_times() that answered cpuR with cumulative time c at time t: the
\* cpu value and the baseline store after it.
CpuBlock(state, pid, t, cpuR, c) ==
    IF cpuR = "ok"
    THEN [cpu |-> IF pid \in DOMAIN state
                  THEN CpuPercent(c - state[pid].c, t - state[pid].t)
                  ELSE 0,
          cpu_state |-> Put(state, pid, [t |-> t, c |-> c])]
    ELSE [cpu |-> 0, cpu_state |-> Del(state, pid)]

\* OnGone that drops every handle and every baseline.
OnGoneClearsAll(pid, cache, state) ==
    [metric |-> NullMetric, data |-> FALSE,
     process_cache |-> {}, cpu_state |-> EmptyDict]

\* OnGone that reports a sample instead of None.
OnGoneSample(pid, cache, state) ==
    [metric |-> Sample(0, 0), data |-> TRUE,
     process_cache |-> cache \ {pid}, cpu_state |-> Del(state, pid)]

\* OnGone that leaves the baseline in place.
OnGoneKeepsBaseline(pid, cache, state) ==
    [metric |-> NullMetric, data |-> FALSE,
     process_cache |-> cache \ {pid}, cpu_state |-> state]

\* except (NoSuchProcess, AccessDenied, ZombieProcess): metrics[pid] = None,
\* the handle and the baseline are deleted.
OnGone(pid, cache, state) ==
    [metric |-> NullMetric, data |-> FALSE,
     process_cache |-> cache \ {pid}, cpu_state |-> Del(state, pid)]

\* except Exception: the error is logged, metrics[pid] = None.
OnError(pid, cache, state) ==
    [metric |-> NullMetric, data |-> FALSE,
     process_cache |-> cache, cpu_state |-> state]

\* The body of "for pid in target_pids" on the caches cache and state at time
\* t, for the answers a.
SampleResult(cache, state, pid, t, a) ==
    IF a.ctor = "gone" THEN OnGone(pid, cache, state)
    ELSE IF a.ctor = "err" THEN OnError(pid, cache, state)
    ELSE LET cache1 == cache \cup {pid}
             blk == CpuBlock(state, pid, t, a.cpuR, a.c)
         IN  IF a.memR = "gone" THEN OnGone(pid, cache1, blk.cpu_state)
             ELSE IF a.memR = "err" THEN OnError(pid, cache1, blk.cpu_state)
             ELSE [metric |-> Sample(blk.cpu, MemMB(a.m)), data |-> TRUE,
                   process_cache |-> cache1, cpu_state |-> blk.cpu_state]

\* What the OS may answer to one sampling of pid when the handles in cache
\* are cached: the handle is constructed only when none is cached.
Answers(cache, pid, D) ==
    LET asked == AskedOver(D.cpus, D.fails) IN
    IF pid \in cache
    THEN {[ctor |-> "cached", cpuR |-> a.cpuR, c |-> a.c, memR |-> a.memR, m |-> a.m] :
            a \in asked}
    ELSE {[ctor |-> "ok", cpuR |-> a.cpuR, c |-> a.c, memR |-> a.memR, m |-> a.m] :
            a \in asked}
         \cup
         {[ctor |-> k, cpuR |-> a.cpuR, c |-> a.c, memR |-> a.memR, m |-> a.m] :
            k \in D.fails, a \in NotAsked}

\* What the sampling of pid observed, for the history: the answers of the
\* OS, whether a baseline was stored, whether it is the first sampling after a
\* re-addition (pnd), and whether this or an earlier sampling of pid in the
\* same tick (before) got all its answers.
Observed(state, pid, a, pnd, before) ==
    [ctor |-> a.ctor, cpu |-> a.cpuR, total |-> a.c, mem |-> a.memR,
     hadBase |-> pid \in DOMAIN state, pend |-> pnd,
     any |-> (before \/ a.memR = "ok")]

\* The for loop from position k of pids on, at time t: the set of its
\* outcomes, one for every way the OS may answer.
RECURSIVE Loop(_, _, _, _, _)
Loop(st, pids, k, t, D) ==
    IF k > Len(pids) THEN {st}
    ELSE LET pid == pids[k] IN
         UNION {
            LET r == SampleResult(st.process_cache, st.cpu_state, pid, t, a)
                o == Observed(st.cpu_state, pid, a, st.pend[pid], st.obs[pid].any)
            IN  Loop([process_cache |-> r.process_cache,
                      cpu_state |-> r.cpu_state,
                      metrics |-> Put(st.metrics, pid, r.metric),
                      has_data |-> (st.has_data \/ r.data),
                      obs |-> [st.obs EXCEPT ![pid] = o],
                      pend |-> [st.pend EXCEPT ![pid] = "none"]],
                     pids, k + 1, t, D)
            : a \in Answers(st.process_cache, pid, D)}

\* PruneKeys that prunes nothing.
PruneKeysNone(keys, pids) == keys

\* The pruning of a cache's keys against the snapshot (lines 46-53).
PruneKeys(keys, pids) == keys \cap Range(pids)

\* The caches pruned, metrics = {}, has_data = False: the tick before its loop.
TickStart ==
    [process_cache |-> PruneKeys(process_cache, target_pids),
     cpu_state |-> Restrict(cpu_state, PruneKeys(DOMAIN cpu_state, target_pids)),
     metrics |-> EmptyDict,
     has_data |-> FALSE,
     obs |-> [p \in Pids |-> NoObs],
     pend |-> pend]

\* EventOf that leaves out the targets that are no longer configured.
EventOfConfig(t, m) ==
    [type |-> "data", timestamp |-> t,
     metrics |-> Restrict(m, DOMAIN m \cap Range(config.pids)), data |-> {}]

\* output = {"type": "data", "timestamp": timestamp, "metrics": metrics}
EventOf(t, m) == [type |-> "data", timestamp |-> t, metrics |-> m, data |-> {}]

\* Emits that writes an event on every tick.
EmitsAlways(data) == TRUE

\* Whether the tick writes its Metric Event: if has_data
Emits(data) == data

\* try: sys.stdout.write(...) except Exception: break, then time.sleep: where
\* the Sampler Loop is after the tick.
AfterWrite(written) == IF written THEN "snapshot" ELSE "dead"

\* SleepInterval that reads the shared configuration at the time of the sleep.
SleepIntervalOfConfig == config.interval

\* time.sleep(interval): the interval of the tick's own snapshot
SleepInterval == interval

\* An enabled tick after its snapshot: both caches are pruned, the clock is
\* read (timestamp and now, one reading here), every entry of target_pids is
\* sampled in order, the Metric Event is written if there is data, and the
\* loop sleeps for the interval of the snapshot. A write that raises (the
\* consumer closed the stream) ends the loop.
Tick(D) ==
    /\ proc = "up" /\ pc = "tick"
    /\ \E t \in D.times :
       \E st \in Loop(TickStart, target_pids, 1, t, D) :
       \E written \in BOOLEAN :
          /\ ~Emits(st.has_data) => written
          /\ now' = t
          /\ process_cache' = st.process_cache
          /\ cpu_state' = st.cpu_state
          /\ metrics' = st.metrics
          /\ has_data' = st.has_data
          /\ obs' = st.obs
          /\ pend' = st.pend
          /\ IF Emits(st.has_data) /\ written
             THEN /\ stdout' = EventOf(t, st.metrics)
                  /\ tickEmits' = 1
                  /\ emitsWhileStopped' =
                        IF config.running THEN emitsWhileStopped
                        ELSE emitsWhileStopped + 1
             ELSE /\ tickEmits' = 0
                  /\ UNCHANGED <<stdout, emitsWhileStopped>>
          /\ pc' = AfterWrite(written)
          /\ slept' = IF AfterWrite(written) = "snapshot" THEN SleepInterval ELSE slept
    /\ nticks' = IF target_pids = << >> THEN nticks ELSE nticks + 1
    /\ idleCleared' = FALSE
    /\ UNCHANGED <<ctlVars, running, target_pids, interval, gap>>

\* ------------------------------------------------- statement by statement
\* The handlers of start, stop and update and the snapshot of the Sampler
\* Loop with one step for taking config_lock and one for every statement that
\* reads or writes a field of config. The lock is released with the last
\* statement of the with block, or by the fault that leaves it.

\* Acquirable that lets a second holder in.
AcquirableAlways(l) == TRUE

\* with config_lock: the block is entered when nobody holds the lock
Acquirable(l) == l = "free"

\* cmd = json.loads(line); action = cmd.get("action"); with config_lock:
HandleBegin(D) ==
    /\ ReadsLine
    /\ Acquirable(lock)
    /\ \E c \in D.cmds :
        /\ cmd' = c
        /\ ctl_pc' = IF c.action = "stop" THEN "w_running" ELSE "w_pids"
        /\ lines' = Logged(D, c.action)
    /\ lock' = "ctl"
    /\ nread' = nread + 1
    /\ UNCHANGED <<config, proc, procs, proc_type, scanned, whole, smpVars,
                   histVars, stdout>>

\* config["pids"] = cmd.get("pids", []), or
\* if "pids" in cmd: config["pids"] = cmd["pids"]
WritePids ==
    /\ proc = "up" /\ ctl_pc = "w_pids"
    /\ config' = IF cmd.action = "start" \/ cmd.pidsKind = "list"
                 THEN [config EXCEPT !.pids = cmd.pids]
                 ELSE config
    /\ ctl_pc' = "w_interval"
    /\ UNCHANGED <<lock, nread, proc, procs, proc_type, scanned, lines, cmd, whole,
                   smpVars, histVars, stdout>>

\* config["interval"] = max(0.5, ...): max raises on an interval that is no
\* number and the with block is left; an update ends here.
WriteInterval ==
    /\ proc = "up" /\ ctl_pc = "w_interval"
    /\ IF cmd.ivKind = "bad"
       THEN /\ lock' = "free" /\ ctl_pc' = "read" /\ cmd' = NoCmd
            /\ UNCHANGED <<config, whole>>
       ELSE IF cmd.action = "start"
       THEN /\ config' = [config EXCEPT !.interval =
                            ClampInterval(IF cmd.ivKind = "absent" THEN DefaultInterval
                                          ELSE cmd.interval)]
            /\ ctl_pc' = "w_running"
            /\ UNCHANGED <<lock, cmd, whole>>
       ELSE /\ config' = IF cmd.ivKind = "num"
                         THEN [config EXCEPT !.interval = ClampInterval(cmd.interval)]
                         ELSE config
            /\ whole' = config'
            /\ lock' = "free" /\ ctl_pc' = "read" /\ cmd' = NoCmd
    /\ UNCHANGED <<nread, proc, procs, proc_type, scanned, lines, smpVars, histVars,
                   stdout>>

\* config["running"] = True, or config["running"] = False for a stop
WriteRunning ==
    /\ proc = "up" /\ ctl_pc = "w_running"
    /\ config' = [config EXCEPT !.running = (cmd.action = "start")]
    /\ whole' = config'
    /\ emitsWhileStopped' = IF cmd.action = "start" THEN 0 ELSE emitsWhileStopped
    /\ lock' = "free" /\ ctl_pc' = "read" /\ cmd' = NoCmd
    /\ UNCHANGED <<nread, proc, procs, proc_type, scanned, lines, smpVars, nticks,
                   tickEmits, obs, idleCleared, gap, pend, stdout>>

\* with config_lock: of the Sampler Loop
SnapshotLock(D) ==
    /\ proc = "up" /\ LoopsAt(pc)
    /\ (config.running /\ config.pids # << >>) => nticks < MaxTicks
    /\ Acquirable(lock)
    /\ lock' = "smp"
    /\ pc' = "locked"
    /\ UNCHANGED <<config, ctl_pc, nread, proc, procs, proc_type, scanned, lines, cmd,
                   whole, running, target_pids, interval, process_cache, cpu_state,
                   now, metrics, has_data, slept, histVars, stdout>>

\* running = config["running"]
ReadRunning ==
    /\ proc = "up" /\ pc = "locked"
    /\ running' = config.running
    /\ pc' = "has_running"
    /\ UNCHANGED <<ctlVars, target_pids, interval, process_cache, cpu_state, now,
                   metrics, has_data, slept, histVars, stdout>>

\* target_pids = list(config["pids"])
ReadPids ==
    /\ proc = "up" /\ pc = "has_running"
    /\ target_pids' = config.pids
    /\ pc' = "has_pids"
    /\ UNCHANGED <<ctlVars, running, interval, process_cache, cpu_state, now,
                   metrics, has_data, slept, histVars, stdout>>

\* LockAfterSnapshot that keeps the lock for the rest of the tick.
LockAfterSnapshotHeld == "smp"

\* The with block of the snapshot ends before the branch on running: the
\* lock is released.
LockAfterSnapshot == "free"

\* interval = config["interval"], and the with block ends
ReadInterval ==
    /\ proc = "up" /\ pc = "has_pids"
    /\ interval' = config.interval
    /\ lock' = LockAfterSnapshot
    /\ pc' = Branch(running)
    /\ UNCHANGED <<config, ctl_pc, nread, proc, procs, proc_type, scanned, lines, cmd,
                   whole, running, target_pids, process_cache, cpu_state, now,
                   metrics, has_data, slept, histVars, stdout>>

Control(D) ==
    \/ MalformedLine(D) \/ NonObjectLine(D) \/ UnknownAction(D)
    \/ ScanBegin(D) \/ ScanWriteBegin \/ ScanWrite \/ ScanFault
    \/ Start(D) \/ Stop(D) \/ Update(D)
    \/ Exit(D) \/ EndOfInput

Sampler(D) == SamplerSnapshot(D) \/ Idle \/ Tick(D)

Next == Control(SystemInputs) \/ Sampler(SystemInputs)
NextConfig == Control(ConfigInputs) \/ Sampler(ConfigInputs)
NextReadings == Control(ReadingsInputs) \/ Sampler(ReadingsInputs)

Spec == Init /\ [][Next]_vars
SpecConfig == Init /\ [][NextConfig]_vars
SpecReadings == Init /\ [][NextReadings]_vars

\* The Control Loop followed line by line: the history logs the kind of each
\* line read.
NextControl == Control(ControlInputs) \/ Sampler(ControlInputs)
SpecControl == Init /\ [][NextControl]_vars

\* A target listed once or twice, with clock and CPU readings that differ.
NextRepeat == Control(RepeatInputs) \/ Sampler(RepeatInputs)
SpecRepeat == Init /\ [][NextRepeat]_vars

\* Two targets sampled in the same tick.
NextPair == Control(PairInputs) \/ Sampler(PairInputs)
SpecPair == Init /\ [][NextPair]_vars

\* Two targets, with the history of their removals and re-additions.
NextTrack == Control(TrackInputs) \/ Sampler(TrackInputs)
SpecTrack == Init /\ [][NextTrack]_vars

\* The handlers and the snapshot statement by statement.
NextLock ==
    \/ HandleBegin(LockInputs) \/ WritePids \/ WriteInterval \/ WriteRunning
    \/ Exit(LockInputs) \/ EndOfInput
    \/ SnapshotLock(LockInputs) \/ ReadRunning \/ ReadPids \/ ReadInterval
    \/ Idle \/ Tick(LockInputs)
SpecLock == Init /\ [][NextLock]_vars

\* The scanner alone: scan_chrome lines only, on the tables of ScanTables.
NextScan == ScanBegin(ScanInputs) \/ ScanWriteBegin \/ ScanWrite \/ ScanFault
SpecScan == Init /\ [][NextScan]_vars

\* The Sampler Loop is a thread that runs whenever it can: it waits only for
\* config_lock and for its sleeps, which end. A scan_chrome in progress ends
\* too, and releases the lock.
NextFair == Control(FairInputs) \/ Sampler(FairInputs)
SpecFair ==
    /\ Init /\ [][NextFair]_vars
    /\ WF_vars(Sampler(FairInputs))
    /\ WF_vars(ScanWriteBegin \/ ScanWrite \/ ScanFault)

\* ------------------------------------------------------------ properties

\* C1: in every reachable state the stored interval is at least 500 ms; a
\* start or update carrying a number below 500 ms stores exactly 500 ms, and
\* one carrying 500 ms or more stores that number unchanged.
C1_IntervalClamped ==
    /\ [](config.interval >= 500)
    /\ [][nread' = nread + 1 =>
            \A c \in Commands :
                (c.ivKind = "num" /\ (StartOf(c, FALSE) \/ UpdateOf(c, FALSE)))
                => config'.interval = (IF c.interval < 500 THEN 500 ELSE c.interval)]_vars

\* The first command carried 100 ms and 500 ms is stored (the initial interval
\* is 1000 ms and no command carries 500).
C1_Witness == nread = 1 /\ config.interval = 500

\* C2 (as amended): for a target listed once whose sample is non-null and
\* whose CPU time was read in two consecutive enabled ticks, with no clearing
\* of the caches by a disabled poll in between, dt > 0 and dc >= 0, the second
\* tick reports 100*dc/dt/cores rounded to two decimals; and the first
\* sampling tick ever reports exactly 0.
C2_CpuPercentRounded ==
    [][(nticks' = nticks + 1 /\ proc' = "up") =>
        \A p \in Range(target_pids) :
            /\ (nticks = 0 /\ ~metrics'[p].null) => metrics'[p].cpu = 0
            /\ LET dt == now' - now
                   dc == obs'[p].total - obs[p].total
               IN  (/\ p \in DOMAIN metrics /\ ~metrics[p].null /\ obs[p].cpu = "ok"
                    /\ ~metrics'[p].null /\ obs'[p].cpu = "ok"
                    /\ ~idleCleared
                    /\ Cardinality({k \in DOMAIN target_pids : target_pids[k] = p}) = 1
                    /\ dt > 0 /\ dc >= 0)
                   => LET err == metrics'[p].cpu * dt * CPU_COUNT - 10000 * dc
                      IN  2 * err <= dt * CPU_COUNT /\ -2 * err <= dt * CPU_COUNT]_vars

\* CPU time 100 ms -> 600 ms over 1 s on 8 cores: the second tick reports 6.25.
C2_Witness ==
    /\ nticks = 2 /\ 1 \in DOMAIN metrics /\ ~metrics[1].null
    /\ obs[1].total = 600 /\ now = 2000 /\ metrics[1].cpu = 625

\* C2 as stated: the second tick reports exactly 100*dc/dt/cores.
C2_Original ==
    [][(nticks' = nticks + 1 /\ proc' = "up") =>
        \A p \in Range(target_pids) :
            /\ (nticks = 0 /\ ~metrics'[p].null) => metrics'[p].cpu = 0
            /\ LET dt == now' - now
                   dc == obs'[p].total - obs[p].total
               IN  (/\ p \in DOMAIN metrics /\ ~metrics[p].null /\ obs[p].cpu = "ok"
                    /\ ~metrics'[p].null /\ obs'[p].cpu = "ok"
                    /\ dt > 0 /\ dc >= 0)
                   => metrics'[p].cpu * dt * CPU_COUNT = 10000 * dc]_vars

C5_GoneIsNull ==
    \A p \in Pids :
        (obs[p].ctor = "gone" \/ (obs[p].cpu = "gone" /\ obs[p].mem = "gone"))
        => /\ p \in DOMAIN metrics /\ metrics[p].null
           /\ (tickEmits = 1 /\ stdout.type = "data")
              => (p \in DOMAIN stdout.metrics /\ stdout.metrics[p].null)

\* Target 1, whose handle was cached by an earlier tick, is gone in the second
\* tick: the event of the tick maps 1 to null next to the sample of target 2.
C5_Witness ==
    /\ nticks = 2 /\ obs[1].ctor = "cached"
    /\ obs[1].cpu = "gone" /\ obs[1].mem = "gone"
    /\ tickEmits = 1 /\ stdout.type = "data"
    /\ DOMAIN stdout.metrics = {1, 2}
    /\ stdout.metrics[1].null /\ ~stdout.metrics[2].null

C7_StartReplaces ==
    [][/\ nread' = nread + 1 =>
            \A c \in Commands :
                (c.action = "start" /\ c.ivKind # "bad" /\ StartOf(c, FALSE))
                => config' = [running |-> TRUE,
                              pids |-> c.pids,
                              interval |-> IF c.ivKind = "absent" THEN 1000
                                           ELSE IF c.interval < 500 THEN 500
                                           ELSE c.interval]
       /\ (pc = "snapshot" /\ pc' \in {"tick", "idle"})
            => /\ <<running', target_pids', interval'>>
                    = <<config.running, config.pids, config.interval>>
               /\ config' = config]_vars

\* The first command was start with pids [1, 2] and 100 ms, and the snapshot
\* after it read enabled, [1, 2] and 500 ms.
C7_Witness ==
    /\ nread = 1 /\ pc = "tick"
    /\ config = [running |-> TRUE, pids |-> <<1, 2>>, interval |-> 500]
    /\ running /\ target_pids = <<1, 2>> /\ interval = 500

\* C8: an update command never changes the enabled flag, leaves the target
\* list alone when it carries no pids and the interval alone when it carries
\* no interval, and replaces what it carries.
C8_UpdateFrame ==
    [][nread' = nread + 1 =>
        \A c \in Commands :
            (c.action = "update" /\ UpdateOf(c, FALSE))
            => /\ config'.running = config.running
               /\ c.pidsKind = "absent" => config'.pids = config.pids
               /\ c.ivKind = "absent" => config'.interval = config.interval
               /\ c.pidsKind = "list" => config'.pids = c.pids
               /\ c.ivKind = "num"
                  => config'.interval = (IF c.interval < 500 THEN 500
                                         ELSE c.interval)]_vars

\* Two updates on the initial configuration, the pids and the interval, left
\* it disabled.
C8_Witness ==
    /\ nread = 2 /\ ~config.running
    /\ config.pids = <<1, 2>> /\ config.interval = 600

\* C9: a stop command sets enabled to false and leaves the target list and
\* the interval unchanged.
C9_StopFrame ==
    [][Stop(ConfigInputs) => /\ ~config'.running
               /\ config'.pids = config.pids
               /\ config'.interval = config.interval]_vars

\* A stop was applied after the snapshot of a tick: the configuration is
\* disabled and still holds the targets and the interval of the start.
C9_Witness ==
    /\ pc = "tick" /\ running /\ ~config.running
    /\ config.pids = <<1>> /\ config.interval = 600
    /\ target_pids = <<1>> /\ interval = 600

\* C10: while the configuration is disabled the Sampler Loop writes at most
\* one Metric Event, that of a tick whose snapshot read enabled; a tick runs
\* only after a snapshot that read enabled, and the disabled branch samples
\* nothing and writes nothing.
C10_StopTakesEffect ==
    /\ [](emitsWhileStopped <= 1)
    /\ [](pc = "tick" => running)
    /\ [][emitsWhileStopped' > emitsWhileStopped => (pc = "tick" /\ running)]_vars
    /\ [][(pc = "idle" /\ pc' # "idle" /\ proc' = "up")
            => UNCHANGED <<stdout, metrics, obs, now, tickEmits, nticks>>]_vars

\* After a stop the tick in flight wrote its event, and the next snapshot read
\* disabled.
C10_Witness ==
    /\ emitsWhileStopped = 1 /\ ~config.running /\ pc = "idle" /\ ~running
    /\ stdout.type = "data"

\* C11: a disabled poll of a non-empty target list leaves the handle cache
\* and the baseline store unchanged, and so does every step other than an
\* enabled tick, a disabled poll of an empty list and the end of the process;
\* a tick that finds a baseline for a target listed once computes the sample
\* from it (100*dc/dt/cores to two decimals for dt > 0 and dc >= 0), be the
\* baseline from before a stop.
C11_PausedStatePreserved ==
    /\ [][(pc = "idle" /\ pc' # "idle" /\ proc' = "up" /\ target_pids # << >>)
            => UNCHANGED <<process_cache, cpu_state>>]_vars
    /\ [][(process_cache' # process_cache \/ cpu_state' # cpu_state)
            => (pc = "tick" \/ (pc = "idle" /\ target_pids = << >>)
                \/ proc' = "exited")]_vars
    /\ [][(nticks' = nticks + 1 /\ proc' = "up") =>
            \A p \in Range(target_pids) \cap DOMAIN cpu_state :
                LET dt == now' - cpu_state[p].t
                    dc == obs'[p].total - cpu_state[p].c
                    err == metrics'[p].cpu * dt * CPU_COUNT - 10000 * dc
                IN  (/\ obs'[p].cpu = "ok" /\ ~metrics'[p].null
                     /\ Cardinality({k \in DOMAIN target_pids : target_pids[k] = p}) = 1
                     /\ dt > 0 /\ dc >= 0)
                    => (2 * err <= dt * CPU_COUNT /\ -2 * err <= dt * CPU_COUNT)]_vars

\* Start, a tick, stop, a disabled poll, start again: the snapshot of the
\* resumed tick is taken and the baseline of the first tick is still stored.
C11_Witness ==
    /\ nread = 3 /\ nticks = 1 /\ pc = "tick" /\ slept = IdlePoll
    /\ target_pids = <<1>> /\ 1 \in process_cache
    /\ 1 \in DOMAIN cpu_state /\ cpu_state[1] = [t |-> 1000, c |-> 100]

\* C12: if from some point on the configuration is disabled with an empty
\* target list, then from some point on the handle cache and the baseline
\* store are empty, unless a failed write has ended the Sampler Loop.
C12_EventuallyCleared ==
    <>[](~config.running /\ config.pids = << >>)
    => <>[]((process_cache = {} /\ cpu_state = EmptyDict) \/ pc = "dead")

\* A disabled poll found the configuration disabled and empty after a tick had
\* filled the caches, and cleared them.
C12_Witness ==
    /\ nticks >= 1 /\ idleCleared /\ proc = "up" /\ pc = "snapshot"
    /\ ~config.running /\ config.pids = << >>
    /\ process_cache = {} /\ cpu_state = EmptyDict
    /\ 1 \in DOMAIN metrics /\ ~metrics[1].null

\* C13: every non-null sample has cpuPercent >= 0 and memoryMB >= 0; a tick
\* that reads the CPU time of a target listed once against a stored baseline
\* with a negative delta or an elapsed time that is not positive reports
\* cpuPercent exactly 0.
C13_NonNegative ==
    /\ [](\A p \in DOMAIN metrics :
            ~metrics[p].null => (metrics[p].cpu >= 0 /\ metrics[p].memory >= 0))
    /\ [][(nticks' = nticks + 1 /\ proc' = "up") =>
            \A p \in Range(target_pids) \cap DOMAIN cpu_state :
                (/\ obs'[p].cpu = "ok" /\ ~metrics'[p].null
                 /\ Cardinality({k \in DOMAIN target_pids : target_pids[k] = p}) = 1
                 /\ (obs'[p].total - cpu_state[p].c < 0 \/ now' - cpu_state[p].t <= 0))
                => metrics'[p].cpu = 0]_vars

\* The second tick read the clock at 1000, not after the first tick's reading,
\* against the baseline of the first: 0 is reported.
C13_Witness ==
    /\ nticks = 2 /\ now = 1000 /\ obs[1].hadBase /\ obs[1].cpu = "ok"
    /\ obs[1].total = 601 /\ ~metrics[1].null /\ metrics[1].cpu = 0

\* C14: in a tick in which a target p gets a null metric, every other target
\* q gets the metric, and ends with the handle and the baseline, that the
\* same answers of the OS give it in a tick of the list <<q>> alone.
C14_FailureContained ==
    [][(nticks' = nticks + 1 /\ proc' = "up") =>
        \A p, q \in Range(target_pids) :
            (p # q /\ metrics'[p].null) =>
                LET start == [TickStart EXCEPT
                                 !.process_cache = @ \cap {q},
                                 !.cpu_state = Restrict(@, {q})]
                    alone == {o \in Loop(start, <<q>>, 1, now', PairInputs) :
                                 o.obs[q] = obs'[q]}
                IN  /\ alone # {}
                    /\ \A o \in alone :
                          /\ o.metrics[q] = metrics'[q]
                          /\ (q \in o.process_cache) = (q \in process_cache')
                          /\ Restrict(o.cpu_state, {q}) = Restrict(cpu_state', {q})]_vars

\* In the second tick target 2, sampled last, is gone, and target 1 is sampled
\* from its cached handle against its baseline.
C14_Witness ==
    /\ nticks = 2 /\ target_pids = <<1, 2>>
    /\ metrics[2].null /\ obs[2].ctor = "cached" /\ obs[2].mem = "gone"
    /\ ~metrics[1].null /\ obs[1].ctor = "cached" /\ obs[1].hadBase
    /\ 1 \in process_cache /\ 1 \in DOMAIN cpu_state

\* C15: whatever the configuration and the state of the Sampler Loop, a scan
\* can find every OS process table, what it returns is decided by the table
\* alone, the process_list record written is what it returned, and neither
\* step of the scan changes the configuration.
C15_ScanIndependent ==
    /\ [](\A T \in Tables : (ReadsLine /\ lock = "free") => ENABLED ScanOf(T))
    /\ [][nread' = nread + 1 =>
            \A T \in Tables :
                ScanOf(T) =>
                    /\ config' = config
                    /\ (\A r \in T : r.name # "none")
                       => procs' = {r.pid : r \in {x \in T : x.name = "chrome.exe"}}]_vars
    /\ [][(ctl_pc = "scan_write" /\ ctl_pc' = "read" /\ proc' = "up")
            => /\ stdout' = [type |-> "process_list", timestamp |-> 0,
                             metrics |-> EmptyDict, data |-> procs]
               /\ config' = config]_vars

\* A scan answered with process 1 while the sampler is enabled on target 2,
\* which it has sampled.
C15_Witness ==
    /\ stdout.type = "process_list" /\ stdout.data = {1}
    /\ config.running /\ config.pids = <<2>>
    /\ nticks >= 1 /\ 2 \in process_cache

\* C16: every scan_chrome command has its handler write one process_list
\* record before the Control Loop reads the next line: the step that ends the
\* handler leaves a process_list record on the Output Channel.
C16_ScanAnswered ==
    [][(ctl_pc # "read" /\ ctl_pc' = "read" /\ proc' = "up")
        => stdout'.type = "process_list"]_vars

\* The last line read, "none" before the first.
LastLine == IF lines = << >> THEN "none" ELSE lines[Len(lines)]

\* The Control Loop is ready for the next line, whatever command it holds.
ReadsOn ==
    /\ lock = "free"
    /\ ENABLED Stop(ControlInputs)
    /\ \A c \in ControlInputs.cmds :
        /\ c.action = "start" => ENABLED StartOf(c, FALSE)
        /\ c.action = "update" => ENABLED UpdateOf(c, FALSE)
    /\ \A T \in Tables : ENABLED ScanOf(T)

\* C17: reading a malformed line changes neither the Shared Configuration nor
\* the Output Channel nor anything else but the count of lines read, and
\* leaves the Control Loop running and ready for the following lines.
C17_MalformedDropped ==
    /\ [][(nread' = nread + 1 /\ LastLine' = "malformed")
            => /\ config' = config
               /\ stdout' = stdout
               /\ UNCHANGED <<lock, procs, smpVars, histVars>>
               /\ proc' = "up" /\ ctl_pc' = "read"]_vars
    /\ []((LastLine = "malformed" /\ proc = "up" /\ nread < MaxCmds) => ReadsOn)

C17_Witness ==
    /\ lines = <<"start", "malformed", "stop">>
    /\ config = [running |-> FALSE, pids |-> <<1>>, interval |-> DefaultInterval]
    /\ stdout.type = "data"

\* The kinds of line whose handling raises a fault that except Exception
\* catches.
HandlerFaults == {"nonobject", "start_fault", "update_fault", "scan_fault"}

\* C18: a line whose handling raises a fault (no JSON object, a start or an
\* update with an interval that is no number, a scan that raises) leaves the
\* Control Loop running with the lock free; it is ready for the next line, and
\* a start or a stop read next is applied.
C18_FaultSurvived ==
    /\ [][(nread' = nread + 1 /\ LastLine' \in HandlerFaults \ {"scan_fault"})
            => proc' = "up" /\ ctl_pc' = "read" /\ lock' = "free"]_vars
    /\ [][(ctl_pc = "scan_fault" /\ ctl_pc' # "scan_fault")
            => proc' = "up" /\ ctl_pc' = "read" /\ lock' = "free"]_vars
    /\ []((LastLine \in HandlerFaults /\ proc = "up" /\ ctl_pc = "read"
            /\ nread < MaxCmds) => ReadsOn)
    /\ [][(LastLine \in HandlerFaults /\ nread' = nread + 1)
            => /\ LastLine' = "start" =>
                    config'.running /\ config'.interval = DefaultInterval
               /\ LastLine' = "stop" =>
                    ~config'.running /\ config'.pids = config.pids]_vars

C18_Witness ==
    /\ lines = <<"start_fault", "nonobject", "start">>
    /\ config = [running |-> TRUE, pids |-> <<1>>, interval |-> DefaultInterval]
    /\ stdout.type = "data"

\* C19: reading an object whose action is none of scan_chrome, start, stop,
\* update, exit changes neither the Shared Configuration nor the Output
\* Channel, starts no scan, and leaves the Control Loop at its next line.
C19_UnknownIgnored ==
    [][(nread' = nread + 1 /\ LastLine' = "unknown")
        => /\ config' = config
           /\ stdout' = stdout
           /\ UNCHANGED <<lock, procs, smpVars, histVars>>
           /\ proc' = "up" /\ ctl_pc' = "read"]_vars

C19_Witness ==
    /\ lines = <<"start", "unknown">>
    /\ config = [running |-> TRUE, pids |-> <<1>>, interval |-> DefaultInterval]
    /\ nticks = 2
    /\ stdout.type = "data"

\* C20: the exit command and the end of the input each end the process with
\* config_lock free; once the process has ended nothing changes any more (no
\* command is applied, the Sampler Loop takes no step and writes nothing) and
\* no step is possible.
C20_ExitTerminates ==
    /\ [][(nread' = nread + 1 /\ LastLine' = "exit")
            => proc' = "exited" /\ lock' = "free"]_vars
    /\ [][EndOfInput => proc' = "exited" /\ lock' = "free"]_vars
    /\ [][proc = "exited" => UNCHANGED vars]_vars
    /\ [](proc = "exited" =>
            /\ lock = "free"
            /\ ~ENABLED Control(ControlInputs)
            /\ ~ENABLED Sampler(ControlInputs))

C20_Witness ==
    /\ lines = <<"start", "exit">>
    /\ proc = "exited"
    /\ lock = "free"
    /\ stdout.type = "data"

\* C21: once a write of a Metric Event has failed, the Control Loop accepts
\* no further command: the only line it may still read is one that ends the
\* process.
C21_SinkFailureTerminates ==
    [][(pc = "dead" /\ nread' = nread + 1) => proc' = "exited"]_vars

\* C22: once a write of a Metric Event has failed, the Sampler Loop takes no
\* step any more, whatever the Control Loop reads: its snapshot, its caches
\* and its position stay as they are until the process ends, no Metric Event
\* is written, and none of its steps is possible.
C22_SamplerStopsForGood ==
    /\ [][(pc = "dead" /\ proc' = "up")
            => /\ pc' = "dead"
               /\ UNCHANGED <<running, target_pids, interval, process_cache,
                              cpu_state, now, metrics, has_data, slept, nticks>>
               /\ stdout' = stdout \/ stdout'.type = "process_list"]_vars
    /\ [](pc = "dead" => ~ENABLED Sampler(ControlInputs))

C22_Witness ==
    /\ pc = "dead"
    /\ proc = "up"
    /\ nticks = 1
    /\ Len(lines) = 3 /\ lines[1] = "start" /\ lines[3] = "start"
    /\ config.running /\ config.pids = << >>
    /\ target_pids = <<1>>

\* C23: while the Control Loop's write of a process_list record is in
\* progress, the Sampler Loop writes no Metric Event.
C23_WritesSerialized ==
    [][(ctl_pc = "scan_write" /\ pc = "tick" /\ pc' # "tick") => tickEmits' = 0]_vars

\* The role flags in their order of precedence, and the proc_type of each.
RoleOrder == <<"renderer", "gpu-process", "utility", "crashpad-handler">>
RoleName == <<"Renderer", "GPU", "Utility", "Crashpad">>

\* The proc_type the precedence gives a command line: that of the earliest
\* role flag of RoleOrder it holds (Extension for a renderer with the
\* extension-process flag), else the capitalized value of its first other
\* --type= flag, else Browser.
RoleByPrecedence(cmdline) ==
    LET held == {k \in DOMAIN RoleOrder : HasType(cmdline, RoleOrder[k])}
        others == {i \in DOMAIN cmdline : cmdline[i].key = "type"}
    IN  IF held # {}
        THEN LET k == CHOOSE x \in held : \A y \in held : x <= y
             IN  IF k = 1 /\ HasFlag(cmdline, "extension-process") THEN "Extension"
                 ELSE RoleName[k]
        ELSE IF others # {}
        THEN Capitalize(cmdline[CHOOSE i \in others : \A j \in others : i <= j].val)
        ELSE "Browser"

\* C24: a scan gives every process it lists the proc_type of the precedence
\* renderer (Extension or Renderer), GPU, Utility, Crashpad, other --type=
\* value, Browser; of the flags of several roles the earliest in this order
\* decides.
C24_RolePrecedence ==
    [][(ctl_pc = "read" /\ ctl_pc' = "scan_done")
        => /\ DOMAIN proc_type' = procs'
           /\ \A r \in scanned' :
                r.pid \in procs' => proc_type'[r.pid] = RoleByPrecedence(r.cmdline)]_vars

C24_Witness ==
    /\ ctl_pc = "scan_done"
    /\ scanned = {[pid |-> 1, name |-> "chrome.exe",
                   cmdline |-> <<TypeArg("zygote"), TypeArg("gpu-process"),
                                 TypeArg("renderer")>>]}
    /\ proc_type = Put(EmptyDict, 1, "Renderer")

\* C25: the sleep that ends a tick lasts the interval read by that tick's own
\* snapshot, whatever a command made of the configured interval since, and
\* the next snapshot reads the interval configured then.
C25_IntervalNextTick ==
    /\ [][(pc = "tick" /\ pc' = "snapshot" /\ proc' = "up") => slept' = interval]_vars
    /\ [][(pc = "tick" /\ proc' = "up") => interval' = interval]_vars
    /\ [][(pc = "snapshot" /\ pc' # "snapshot" /\ proc' = "up")
            => interval' = config.interval]_vars

C25_Witness ==
    /\ pc = "snapshot"
    /\ nticks = 1
    /\ slept = DefaultInterval
    /\ interval = DefaultInterval
    /\ config.interval = 600
    /\ config.running

\* Where each loop is inside its "with config_lock" block.
CtlHolds == ctl_pc \in {"w_pids", "w_interval", "w_running"}
SmpHolds == pc \in {"locked", "has_running", "has_pids"}

\* C26: the two loops are never inside their with config_lock blocks at the
\* same time, each is inside exactly while the lock is its own, config
\* changes only by a step of the Control Loop inside its block, and the
\* snapshot of the Sampler Loop changes only by a step inside its block.
C26_LockDiscipline ==
    /\ [](~(CtlHolds /\ SmpHolds))
    /\ []((CtlHolds <=> lock = "ctl") /\ (SmpHolds <=> lock = "smp"))
    /\ [][(config' # config /\ proc' = "up") => (CtlHolds /\ lock = "ctl")]_vars
    /\ [][((running' # running \/ target_pids' # target_pids \/ interval' # interval)
            /\ proc' = "up") => (SmpHolds /\ lock = "smp")]_vars

C26_Witness ==
    /\ ctl_pc = "w_interval"
    /\ lock = "ctl"
    /\ LoopsAt(pc)
    /\ config.running /\ config.pids = << >>
    /\ cmd.pids = << >> /\ cmd.action = "update" /\ cmd.pidsKind = "list"
    /\ target_pids = <<1>>
    /\ nticks = 1

\* C27: the triple a snapshot of the Sampler Loop read is the configuration
\* as the last command that was applied in full left it.
C27_SnapshotWhole ==
    [][(pc = "has_pids" /\ pc' # "has_pids" /\ proc' = "up")
        => /\ running' = whole.running
           /\ target_pids' = whole.pids
           /\ interval' = whole.interval]_vars

\* C28: a start or an update whose interval is no number leaves the
\* configuration as it was.
C28_FaultLeavesConfig ==
    [][\A c \in Commands :
        (c.ivKind = "bad" /\ (StartOf(c, FALSE) \/ UpdateOf(c, FALSE)))
            => config' = config]_vars

\* The list pids with every identifier at its first place only.
RECURSIVE ListedOnce(_)
ListedOnce(pids) ==
    IF pids = << >> THEN << >>
    ELSE LET rest == ListedOnce(SubSeq(pids, 1, Len(pids) - 1))
             last == pids[Len(pids)]
         IN  IF last \in Range(rest) THEN rest ELSE Append(rest, last)

\* C29: a tick on a target list that repeats an identifier ends with metrics
\* and baselines that a tick on the list without the repetitions can end
\* with, from the same caches and at the same time.
C29_TargetsAsSet ==
    [][(pc = "tick" /\ pc' # "tick" /\ proc' = "up")
        => \E st \in Loop(TickStart, ListedOnce(target_pids), 1, now', RepeatInputs) :
              /\ st.metrics = metrics'
              /\ st.cpu_state = cpu_state']_vars

\* C30: an identifier with a cached handle or a stored baseline is in the
\* configured target list, unless a command dropped it from the list and
\* either no snapshot that is followed by a cleanup was taken since, or the
\* cleanup that follows that snapshot has not run yet.
C30_EntriesAreTargets ==
    \A p \in Pids :
        (p \in process_cache \cup DOMAIN cpu_state /\ p \notin Range(config.pids))
            => \/ gap[p] = "removed"
               \/ gap[p] = "removedSeen" /\ pc \in {"tick", "idle"}

C30_Witness ==
    /\ 1 \in process_cache /\ 1 \in DOMAIN cpu_state
    /\ config.pids = <<2>>
    /\ ~config.running
    /\ gap[1] = "removed"
    /\ pc = "snapshot" /\ slept = IdlePoll /\ target_pids = <<2>>

\* C31: in an enabled tick, when the sampling of the first target begins
\* (the caches as the for loop finds them, after the pruning), every cached
\* handle and every stored baseline belongs to an identifier of the tick's
\* snapshot of the target list.
C31_PrunedBeforeSampling ==
    pc = "tick" =>
        /\ TickStart.process_cache \subseteq Range(target_pids)
        /\ DOMAIN TickStart.cpu_state \subseteq Range(target_pids)

C31_Witness ==
    /\ pc = "tick" /\ target_pids = <<2>>
    /\ 1 \in process_cache /\ 1 \in DOMAIN cpu_state
    /\ TickStart.process_cache = {} /\ DOMAIN TickStart.cpu_state = {}

\* C32: config_lock is held only to copy or to assign the fields of config:
\* it is not held while the Control Loop is past its scan of the process
\* table with the process_list record still to write, inside the write of
\* that record, or leaving a scan that raised, so the snapshot of the Sampler
\* Loop does not wait for a scan_chrome command.
C32_LockOnlyForFields ==
    ctl_pc \in {"scan_done", "scan_write", "scan_fault"} => lock = "free"

\* C33: the Sampler Loop holds config_lock only inside its snapshot: the
\* lock is not its own while it is in the disabled branch, in an enabled tick
\* (pruning, sampling, writing the Metric Event, sleeping), back at the top
\* of the loop or ended, and a line that the Control Loop reads while a tick
\* or a poll is under way has its handler enter its with block at once.
C33_SamplerHoldsOnlyForSnapshot ==
    /\ pc \in {"tick", "idle", "snapshot", "dead"} => lock # "smp"
    /\ (pc \in {"tick", "idle"} /\ ReadsLine) => ENABLED HandleBegin(LockInputs)

C33_Witness ==
    /\ pc = "tick" /\ running /\ target_pids = <<1>>
    /\ nticks >= 1
    /\ ctl_pc = "w_pids" /\ lock = "ctl"
    /\ cmd.action = "update"

\* C34: at the end of a tick, a target whose metric of that tick is null,
\* whatever made it null, has neither a cached handle nor a stored baseline.
C34_NullMeansPurged ==
    \A p \in Pids :
        (p \in DOMAIN metrics /\ metrics[p].null)
            => (p \notin process_cache /\ p \notin DOMAIN cpu_state)

\* C35: the keys of the metrics map of every Metric Event are the
\* identifiers of the snapshot its tick took, whatever the commands applied
\* since that snapshot made of the configured target list.
C35_EventKeysAreSnapshot ==
    [][(pc = "tick" /\ pc' # "tick" /\ tickEmits' = 1 /\ proc' = "up")
        => /\ stdout'.type = "data"
           /\ DOMAIN stdout'.metrics = Range(target_pids)]_vars

\* The event of a tick on target 1 was written after a stop and with
\* target 2 configured in place of 1.
C35_Witness ==
    /\ tickEmits = 1 /\ emitsWhileStopped = 1
    /\ stdout.type = "data" /\ DOMAIN stdout.metrics = {1}
    /\ target_pids = <<1>> /\ config.pids = <<2>>
    /\ pc = "snapshot" /\ slept = interval

\* C36: at the end of a tick, every target whose cumulative CPU time was
\* read in the tick and whose sample of the tick is non-null has the baseline
\* (time of this tick, cumulative CPU time read in this tick), whether or not
\* there was a baseline before and whether or not the delta against it was
\* valid.
C36_BaselineAlwaysStored ==
    [][(pc = "tick" /\ pc' # "tick" /\ proc' = "up")
        => \A p \in Range(target_pids) :
              (obs'[p].cpu = "ok" /\ ~metrics'[p].null)
                  => /\ p \in DOMAIN cpu_state'
                     /\ cpu_state'[p] = [t |-> now', c |-> obs'[p].total]]_vars

\* The second tick of target 1 read the clock at 1000, not after the time of
\* its baseline, and a CPU time of 100, not above the one of its baseline: it
\* reported 0 and stored (1000, 100).
C36_Witness ==
    /\ nticks = 2 /\ now = 1000
    /\ obs[1].hadBase /\ obs[1].cpu = "ok" /\ obs[1].total = 100
    /\ ~metrics[1].null /\ metrics[1].cpu = 0
    /\ 1 \in DOMAIN cpu_state /\ cpu_state[1] = [t |-> 1000, c |-> 100]

\* C37: whenever the configuration is enabled with a target, the Sampler
\* Loop comes to run a further tick, which writes its Metric Event if a
\* target could be sampled, unless the configuration is disabled or emptied,
\* the process ends, or a failed write ends the loop: the commands the Control
\* Loop handles meanwhile, scan_chrome among them, do not hold it up for good.
C37_KeepsSampling ==
    \A n \in 0..(MaxTicks - 1) :
        (nticks = n /\ config.running /\ config.pids # << >>)
            ~> \/ nticks > n /\ (tickEmits = 1 \/ \A p \in Pids : ~obs[p].any)
               \/ ~config.running \/ config.pids = << >>
               \/ proc # "up" \/ pc = "dead"

\* Two ticks wrote their events, a command was handled in between, and the
\* Sampler Loop is back at its snapshot while a scan holds the lock.
C37_Witness ==
    /\ nread = 3 /\ nticks = 2 /\ tickEmits = 1
    /\ stdout.type = "data" /\ ~stdout.metrics[1].null
    /\ config.running /\ config.pids = <<1>>
    /\ ctl_pc = "scan_done" /\ lock = "ctl" /\ pc = "snapshot"

====
